---- MODULE Spec2Model ----
(***************************************************************************)
(* Model of weather/weather.py: the Request Gateway (make_nws_request),    *)
(* the alert formatter (format_alert) and the two tool handlers            *)
(* (get_alerts, get_forecast) served by the FastMCP instance.              *)
(*                                                                         *)
(* JSON values are tagged records.  A text (Python str built by an         *)
(* f-string or by str.join) is the sequence of its pieces: the literal     *)
(* parts of the template and the rendered values, in order.                *)
(***************************************************************************)
EXTENDS Integers, Sequences, FiniteSets, TLC

(* ------------------------------ bounds -------------------------------- *)
MaxFeatures == 2
MaxPeriods == 6
NumInv == 2

(* ----------------------------- constants ------------------------------ *)
NWS_API_BASE == "https://api.weather.gov"
SEP == "\n---\n"

(* --------------------------- JSON / Python values --------------------- *)
None == [t |-> "null"]
JStr(s) == [t |-> "str", s |-> s]
JNum(n) == [t |-> "num", n |-> n]
JList(l) == [t |-> "list", items |-> l]
JDict(m) == [t |-> "dict", m |-> m]
PyText(x) == [t |-> "text", text |-> x]
EmptyMap == [k \in {} |-> None]
EmptyDict == JDict(EmptyMap)

\* outcome of evaluating an expression: a value, or a raised exception
Ok(v) == [ok |-> TRUE, v |-> v, exc |-> ""]
Raise(e) == [ok |-> FALSE, v |-> None, exc |-> e]

\* bool(v)
Truthy(v) ==
    CASE v.t = "null" -> FALSE
      [] v.t = "str" -> v.s # ""
      [] v.t = "num" -> v.n # 0
      [] v.t = "list" -> v.items # <<>>
      [] v.t = "dict" -> DOMAIN v.m # {}
      [] v.t = "text" -> v.text # <<>>

\* str(v) as an f-string renders it
Str(v) ==
    CASE v.t = "null" -> "None"
      [] v.t = "str" -> v.s
      [] v.t = "num" -> ToString(v.n)
      [] OTHER -> "<object>"

\* key in d, for a dict d
Contains(d, key) == d.t = "dict" /\ key \in DOMAIN d.m

\* d[key]
GetItem(d, key) ==
    IF d.t # "dict" THEN Raise("TypeError")
    ELSE IF key \in DOMAIN d.m THEN Ok(d.m[key])
    ELSE Raise("KeyError")

\* d.get(key, default); d.get(key) is DictGet(d, key, None)
DictGet(d, key, default) ==
    IF d.t # "dict" THEN Raise("AttributeError")
    ELSE IF key \in DOMAIN d.m THEN Ok(d.m[key])
    ELSE Ok(default)

\* obj.append(x)
MethodAppend(obj, x) ==
    IF obj.t = "list" THEN Ok(JList(Append(obj.items, x)))
    ELSE Raise("AttributeError")

\* l[:n]
Slice(l, n) ==
    IF l.t # "list" THEN Raise("TypeError")
    ELSE Ok(JList(SubSeq(l.items, 1, IF Len(l.items) < n THEN Len(l.items) ELSE n)))

RECURSIVE JoinTexts(_, _)
JoinTexts(sep, texts) ==
    IF texts = <<>> THEN <<>>
    ELSE IF Len(texts) = 1 THEN texts[1]
    ELSE texts[1] \o <<sep>> \o JoinTexts(sep, Tail(texts))

\* sep.join(x): over the items of a list; over a str it iterates the
\* str's characters (kept here at the granularity of its pieces)
StrJoin(sep, x) ==
    IF x.t = "list" THEN Ok(JoinTexts(sep, [k \in 1..Len(x.items) |-> x.items[k].text]))
    ELSE IF x.t = "text" THEN Ok(JoinTexts(sep, [k \in 1..Len(x.text) |-> <<x.text[k]>>]))
    ELSE Raise("TypeError")

(* ------------------------------ format_alert -------------------------- *)
format_alert(feature) ==
    LET p == GetItem(feature, "properties") IN
    IF ~p.ok THEN p
    ELSE LET props == p.v
             event == DictGet(props, "event", JStr("Unknown"))
             area == DictGet(props, "areaDesc", None)
             severity == DictGet(props, "severity", JStr("Unknown"))
             description == DictGet(props, "description", JStr("No description available"))
             instruction == DictGet(props, "instruction", JStr("No instruction available"))
         IN  IF ~event.ok THEN event
             ELSE Ok(PyText(<< "\n        Event: ", Str(event.v),
                               "\n        Area: ", Str(area.v),
                               "\n        Serverity: ", Str(severity.v),
                               "\n        Description: ", Str(description.v),
                               "\n        Instruction: ", Str(instruction.v),
                               "\n    " >>))

(* ------------------------------ get_forecast -------------------------- *)
\* the f-string of the loop body; a missing key faults at the first
\* subscript that misses, in template order
FormatPeriod(period) ==
    LET name == GetItem(period, "name")
        temperature == GetItem(period, "temperature")
        unit == GetItem(period, "temperatureUnit")
        windSpeed == GetItem(period, "windSpeed")
        windDirection == GetItem(period, "windDirection")
        detailed == GetItem(period, "detailedForecast")
    IN  IF ~name.ok THEN name
        ELSE IF ~temperature.ok THEN temperature
        ELSE IF ~unit.ok THEN unit
        ELSE IF ~windSpeed.ok THEN windSpeed
        ELSE IF ~windDirection.ok THEN windDirection
        ELSE IF ~detailed.ok THEN detailed
        ELSE Ok(PyText(<< "\n            Name: ", Str(name.v),
                          "\n            Temperature: ", Str(temperature.v),
                          "(U+00C2)(U+00B0)", Str(unit.v),
                          "\n            Wind: ", Str(windSpeed.v), " ", Str(windDirection.v),
                          "\n            Forecast: ", Str(detailed.v),
                          "\n        " >>))

\* the for loop over periods[:5]: each pass rebinds the name forecast to
\* the formatted str and then calls forecast.append(forecast) on it
RECURSIVE ForecastLoop(_, _, _)
ForecastLoop(ps, k, forecast) ==
    IF k > Len(ps) THEN Ok(forecast)
    ELSE LET f == FormatPeriod(ps[k]) IN
         IF ~f.ok THEN f
         ELSE LET app == MethodAppend(f.v, f.v) IN
              IF ~app.ok THEN app
              ELSE ForecastLoop(ps, k + 1, app.v)

\* lines 93-105 of get_forecast, given a truthy forecast_data
FormatForecast(forecast_data) ==
    LET p == GetItem(forecast_data, "properties") IN
    IF ~p.ok THEN p
    ELSE LET periods == GetItem(p.v, "periods") IN
         IF ~periods.ok THEN periods
         ELSE LET first == Slice(periods.v, 5) IN
              IF ~first.ok THEN first
              ELSE LET l == ForecastLoop(first.v.items, 1, JList(<<>>)) IN
                   IF ~l.ok THEN l
                   ELSE StrJoin(SEP, l.v)

(* ------------------------------ get_alerts ---------------------------- *)
\* FormatAll skipping a feature whose block is already in the list
RECURSIVE FormatAllDedup(_, _, _)
FormatAllDedup(fs, k, acc) ==
    IF k > Len(fs) THEN Ok(JList(acc))
    ELSE LET a == format_alert(fs[k]) IN
         IF ~a.ok THEN a
         ELSE IF \E j \in 1..Len(acc) : acc[j] = a.v THEN FormatAllDedup(fs, k + 1, acc)
         ELSE FormatAllDedup(fs, k + 1, Append(acc, a.v))

\* the list comprehension [format_alert(feature) for feature in features]
RECURSIVE FormatAll(_, _, _)
FormatAll(fs, k, acc) ==
    IF k > Len(fs) THEN Ok(JList(acc))
    ELSE LET a == format_alert(fs[k]) IN
         IF ~a.ok THEN a
         ELSE FormatAll(fs, k + 1, Append(acc, a.v))

\* AlertsText testing only "not data" before it subscripts data
AlertsTextNoKeyCheck(data) ==
    IF ~Truthy(data)
    THEN Ok(<<"Unable to fetch alerts or no alerts found.">>)
    ELSE LET fv == GetItem(data, "features") IN
         IF ~fv.ok THEN fv
         ELSE IF ~Truthy(fv.v) THEN Ok(<<"No weather alerts for this state.">>)
         ELSE IF fv.v.t # "list" THEN Raise("TypeError")
         ELSE LET alerts == FormatAll(fv.v.items, 1, <<>>) IN
              IF ~alerts.ok THEN alerts
              ELSE StrJoin(SEP, alerts.v)

\* AlertsText without the test for an empty features value
AlertsTextNoEmptyCheck(data) ==
    IF ~Truthy(data) \/ ~Contains(data, "features")
    THEN Ok(<<"Unable to fetch alerts or no alerts found.">>)
    ELSE LET features == data.m["features"] IN
         IF features.t # "list" THEN Raise("TypeError")
         ELSE LET alerts == FormatAll(features.items, 1, <<>>) IN
              IF ~alerts.ok THEN alerts
              ELSE StrJoin(SEP, alerts.v)

\* lines 62-69 of get_alerts, given the Gateway's return value
AlertsText(data) ==
    IF ~Truthy(data) \/ ~Contains(data, "features")
    THEN Ok(<<"Unable to fetch alerts or no alerts found.">>)
    ELSE LET features == data.m["features"] IN
         IF ~Truthy(features) THEN Ok(<<"No weather alerts for this state.">>)
         ELSE IF features.t # "list" THEN Raise("TypeError")
         ELSE LET alerts == FormatAll(features.items, 1, <<>>) IN
              IF ~alerts.ok THEN alerts
              ELSE StrJoin(SEP, alerts.v)

(* --------------------------- make_nws_request ------------------------- *)
\* exception classes and the bases the except clauses match on
Bases(e) ==
    CASE e = "HTTPStatusError" -> {"HTTPStatusError", "HTTPError", "Exception"}
      [] e = "ConnectError" -> {"ConnectError", "RequestError", "HTTPError", "Exception"}
      [] e = "ReadTimeout" -> {"ReadTimeout", "RequestError", "HTTPError", "Exception"}
      [] e = "JSONDecodeError" -> {"JSONDecodeError", "ValueError", "Exception"}
      [] OTHER -> {e, "Exception"}

IsSuccess(status) == status \in 200..299

\* what the outbound GET can come to: client.get raises, or a response
\* with a status and a body that decodes or not
Response(get_exc, status, decodable, body) ==
    [get_exc |-> get_exc, status |-> status, decodable |-> decodable, body |-> body]

\* the try block, lines 24-26
TryBlock(r) ==
    IF r.get_exc # "" THEN Raise(r.get_exc)
    ELSE IF ~IsSuccess(r.status) THEN Raise("HTTPStatusError")
    ELSE IF ~r.decodable THEN Raise("JSONDecodeError")
    ELSE Ok(r.body)

\* Handler without its last clause, except Exception
HandlerNoCatchAll(e) ==
    IF "HTTPStatusError" \in Bases(e) THEN "HTTP error"
    ELSE IF "RequestError" \in Bases(e) THEN "Request error"
    ELSE ""

\* the except clauses, lines 27-32: the diagnostic line printed, or ""
\* when no clause matches and the exception propagates
Handler(e) ==
    IF "HTTPStatusError" \in Bases(e) THEN "HTTP error"
    ELSE IF "RequestError" \in Bases(e) THEN "Request error"
    ELSE IF "Exception" \in Bases(e) THEN "Unexpected error"
    ELSE ""

\* value make_nws_request comes to once the GET has resolved
GatewayResult(r) ==
    LET t == TryBlock(r) IN
    IF t.ok THEN t
    ELSE IF Handler(t.exc) # "" THEN Ok(None)
    ELSE t

GatewayPrinted(r) ==
    LET t == TryBlock(r) IN IF t.ok THEN "" ELSE Handler(t.exc)

(* ------------------------- Gateway result domain ---------------------- *)
AlertKeys == {"event", "areaDesc", "severity", "description", "instruction"}
PeriodKeys == {"name", "temperature", "temperatureUnit", "windSpeed",
               "windDirection", "detailedForecast"}
Vals == {"v1", "v2"}

\* properties maps: every key present, one key missing, no key at all
PropsDomains == {AlertKeys} \cup {AlertKeys \ {k} : k \in AlertKeys} \cup {{}}
PropsSet == {[k \in D |-> JStr(v)] : D \in PropsDomains, v \in Vals}

\* alert features: with a properties map, or lacking the key
Features == {JDict([properties |-> JDict(m)]) : m \in PropsSet}
              \cup {JDict([id |-> JStr("urn:alert")])}

Period(name, temp) ==
    JDict([name |-> JStr(name), temperature |-> JNum(temp),
           temperatureUnit |-> JStr("F"), windSpeed |-> JStr("5 mph"),
           windDirection |-> JStr("NW"), detailedForecast |-> JStr("Clear.")])
Periods == {Period("Tonight", 54), Period("Monday", 72),
            JDict([name |-> JStr("Tuesday"), temperature |-> JNum(60)])}

SeqsUpTo(S, n) == UNION {[1..k -> S] : k \in 0..n}

ForecastUrl == "https://api.weather.gov/gridpoints/TOP/31,80/forecast"

AlertBodies ==
    {JDict([features |-> JList(fs)]) : fs \in SeqsUpTo(Features, MaxFeatures)}
      \cup {JDict([features |-> None]), JDict([title |-> JStr("alerts")])}
PointsBodies ==
    {JDict([properties |-> JDict([forecast |-> JStr(ForecastUrl)])]),
     JDict([properties |-> EmptyDict]),
     JDict([properties |-> None])}
ForecastBodies ==
    {JDict([properties |-> JDict([periods |-> JList(ps)])]) : ps \in SeqsUpTo(Periods, MaxPeriods)}

\* every decoded object the Gateway may hand back, whatever the URL
Bodies == {EmptyDict} \cup AlertBodies \cup PointsBodies \cup ForecastBodies

\* a small slice of Bodies for the interleaved invocations
FewBodies ==
    {JDict([properties |-> JDict([forecast |-> JStr(ForecastUrl)])]),
     JDict([properties |-> JDict([periods |-> JList(<<>>)])])}

\* outcomes of the outbound GET over a set B of decodable bodies
Responses(B) ==
    {Response(e, 0, FALSE, None) : e \in {"ConnectError", "ReadTimeout", "RuntimeError"}}
      \cup {Response("", st, FALSE, None) : st \in {404, 503}}
      \cup {Response("", 200, FALSE, None)}
      \cup {Response("", 200, TRUE, b) : b \in B}

AllResponses == Responses(Bodies)

\* one outcome of each kind of exit of make_nws_request
FewResponses ==
    {Response("ReadTimeout", 0, FALSE, None), Response("", 404, FALSE, None),
     Response("", 200, FALSE, None)}
      \cup {Response("", 200, TRUE, b) : b \in FewBodies}

States == {"CA", "ZZ"}
\* coordinates in tenths of a degree
Coords == {<<385, -975>>}

\* str(x) of a float with one decimal
FloatStr(tenths) ==
    LET a == IF tenths < 0 THEN -tenths ELSE tenths IN
    (IF tenths < 0 THEN "-" ELSE "") \o ToString(a \div 10) \o "." \o ToString(a % 10)

(* ------------------------------- state -------------------------------- *)
VARIABLES
    pc,             \* position of each invocation
    tool,           \* the tool an invocation runs: get_alerts, get_forecast
    stage,          \* the Gateway call it is at: alerts, points, forecast
    url,            \* make_nws_request: the url argument
    client,         \* make_nws_request: the client of the async with block
    response,       \* make_nws_request: what the GET came to
    ret,            \* make_nws_request: the value it is returning
    printed,        \* make_nws_request: diagnostic line of this call
    data,           \* get_alerts: data
    points_data,    \* get_forecast: points_data
    forecast_url,   \* get_forecast: forecast_url
    forecast_data,  \* get_forecast: forecast_data
    result,         \* how the handler ended: a returned text or a fault
    requested,      \* urls the invocation has passed to the Gateway
    conns,          \* clients currently open
    opened_by       \* for each open client, the invocation that opened it

vars == <<pc, tool, stage, url, client, response, ret, printed, data, points_data,
          forecast_url, forecast_data, result, requested, conns, opened_by>>

gwvars == <<url, client, response, ret, printed, conns, opened_by>>
locals == <<data, points_data, forecast_url, forecast_data>>

NoResponse == Response("", 0, FALSE, None)
NoResult == [kind |-> "none", text |-> <<>>, exc |-> ""]
Returned(text) == [kind |-> "return", text |-> text, exc |-> ""]
Raised(e) == [kind |-> "raise", text |-> <<>>, exc |-> e]
\* the handler ends the way the evaluation r ended
Ended(r) == IF r.ok THEN Returned(r.v) ELSE Raised(r.exc)

InitOver(I) ==
    /\ pc = [i \in I |-> "idle"]
    /\ tool = [i \in I |-> "none"]
    /\ stage = [i \in I |-> "none"]
    /\ url = [i \in I |-> ""]
    /\ client = [i \in I |-> 0]
    /\ response = [i \in I |-> NoResponse]
    /\ ret = [i \in I |-> Ok(None)]
    /\ printed = [i \in I |-> ""]
    /\ data = [i \in I |-> None]
    /\ points_data = [i \in I |-> None]
    /\ forecast_url = [i \in I |-> ""]
    /\ forecast_data = [i \in I |-> None]
    /\ result = [i \in I |-> NoResult]
    /\ requested = [i \in I |-> <<>>]
    /\ conns = {}
    /\ opened_by = [c \in 1..Cardinality(I) |-> 0]

(* ------------------------------ the Gateway --------------------------- *)
\* async with httpx.AsyncClient() as client: a client of its own
NewClient(open) ==
    CHOOSE c \in (DOMAIN opened_by) \ open : \A d \in (DOMAIN opened_by) \ open : c <= d

\* Release that closes the client only when the try block came through
ReleaseOnSuccess(open, c, r) == IF TryBlock(r).ok THEN open \ {c} ELSE open

\* leaving the async with block closes the block's client
Release(open, c, r) == open \ {c}

\* the call make_nws_request(u) of invocation i, up to the client's opening
Call(i, u, st) ==
    /\ url' = [url EXCEPT ![i] = u]
    /\ stage' = [stage EXCEPT ![i] = st]
    /\ requested' = [requested EXCEPT ![i] = Append(@, u)]
    /\ pc' = [pc EXCEPT ![i] = "enter"]
    /\ UNCHANGED <<client, response, ret, printed, conns, opened_by>>

GwEnter(i) ==
    /\ pc[i] = "enter"
    /\ (DOMAIN opened_by) \ conns # {}
    /\ LET c == NewClient(conns) IN
         /\ client' = [client EXCEPT ![i] = c]
         /\ conns' = conns \cup {c}
         /\ opened_by' = [opened_by EXCEPT ![c] = i]
    /\ pc' = [pc EXCEPT ![i] = "get"]
    /\ UNCHANGED <<tool, stage, url, response, ret, printed, locals, result, requested>>

\* the awaited GET resolves, within the timeout at the latest; the try
\* block and the except clauses run
GwGet(i, R) ==
    /\ pc[i] = "get"
    /\ \E r \in R :
         /\ response' = [response EXCEPT ![i] = r]
         /\ ret' = [ret EXCEPT ![i] = GatewayResult(r)]
         /\ printed' = [printed EXCEPT ![i] = GatewayPrinted(r)]
    /\ pc' = [pc EXCEPT ![i] = "leave"]
    /\ UNCHANGED <<tool, stage, url, client, conns, opened_by, locals, result, requested>>

\* the async with block is left and the call returns (or faults) to the handler
GwExit(i) ==
    /\ pc[i] = "leave"
    /\ conns' = Release(conns, client[i], response[i])
    /\ opened_by' = [c \in DOMAIN opened_by |-> IF c \in conns' THEN opened_by[c] ELSE 0]
    /\ client' = [client EXCEPT ![i] = 0]
    /\ response' = [response EXCEPT ![i] = NoResponse]
    /\ pc' = [pc EXCEPT ![i] = "resume"]
    /\ UNCHANGED <<tool, stage, url, ret, printed, locals, result, requested>>

(* ------------------------------ the handlers -------------------------- *)
get_alerts(i, S) ==
    /\ pc[i] = "idle"
    /\ \E state \in S :
         Call(i, NWS_API_BASE \o "/alerts/active/area/" \o state, "alerts")
    /\ tool' = [tool EXCEPT ![i] = "get_alerts"]
    /\ UNCHANGED <<locals, result>>

get_alerts_resume(i) ==
    /\ pc[i] = "resume" /\ stage[i] = "alerts"
    /\ IF ret[i].ok
       THEN /\ data' = [data EXCEPT ![i] = ret[i].v]
            /\ result' = [result EXCEPT ![i] = Ended(AlertsText(ret[i].v))]
       ELSE /\ result' = [result EXCEPT ![i] = Raised(ret[i].exc)]
            /\ UNCHANGED data
    /\ pc' = [pc EXCEPT ![i] = "done"]
    /\ UNCHANGED <<tool, stage, gwvars, points_data, forecast_url, forecast_data, requested>>

get_forecast(i, C) ==
    /\ pc[i] = "idle"
    /\ \E c \in C :
         Call(i, NWS_API_BASE \o "/points/" \o FloatStr(c[1]) \o "," \o FloatStr(c[2]), "points")
    /\ tool' = [tool EXCEPT ![i] = "get_forecast"]
    /\ UNCHANGED <<locals, result>>

\* PointsDecision without the test for an absent result
PointsDecisionNoCheck(pd) ==
    LET p == GetItem(pd, "properties")
        f == IF p.ok THEN GetItem(p.v, "forecast") ELSE p
    IN  IF ~f.ok THEN [do |-> "end", r |-> Raised(f.exc), u |-> ""]
        ELSE [do |-> "call", r |-> NoResult, u |-> Str(f.v)]

\* lines 83-88, given the value the points call returned: return the
\* sentence, fault on a subscript, or go on to call the Gateway on u
PointsDecision(pd) ==
    IF ~Truthy(pd)
    THEN [do |-> "end", r |-> Returned(<<"Unable to fetch forecast data for this location.">>), u |-> ""]
    ELSE LET p == GetItem(pd, "properties")
             f == IF p.ok THEN GetItem(p.v, "forecast") ELSE p
         IN  IF ~f.ok THEN [do |-> "end", r |-> Raised(f.exc), u |-> ""]
             ELSE [do |-> "call", r |-> NoResult, u |-> Str(f.v)]

\* ForecastDecision repeating the sentence of the points call
ForecastDecisionSameSentence(fd) ==
    IF ~Truthy(fd) THEN Returned(<<"Unable to fetch forecast data for this location.">>)
    ELSE Ended(FormatForecast(fd))

\* lines 90-105, given the value the forecast call returned
ForecastDecision(fd) ==
    IF ~Truthy(fd) THEN Returned(<<"Unable to fetch detailed forecast.">>)
    ELSE Ended(FormatForecast(fd))

\* lines 81-88: the points call has returned
get_forecast_points(i) ==
    /\ pc[i] = "resume" /\ stage[i] = "points"
    /\ IF ~ret[i].ok
       THEN /\ result' = [result EXCEPT ![i] = Raised(ret[i].exc)]
            /\ pc' = [pc EXCEPT ![i] = "done"]
            /\ UNCHANGED <<stage, gwvars, locals, requested>>
       ELSE LET d == PointsDecision(ret[i].v) IN
            /\ points_data' = [points_data EXCEPT ![i] = ret[i].v]
            /\ result' = [result EXCEPT ![i] = d.r]
            /\ IF d.do = "end"
               THEN /\ pc' = [pc EXCEPT ![i] = "done"]
                    /\ UNCHANGED <<stage, gwvars, forecast_url, requested>>
               ELSE /\ forecast_url' = [forecast_url EXCEPT ![i] = d.u]
                    /\ Call(i, d.u, "forecast")
            /\ UNCHANGED <<data, forecast_data>>
    /\ UNCHANGED tool

\* lines 88-105: the forecast call has returned
get_forecast_format(i) ==
    /\ pc[i] = "resume" /\ stage[i] = "forecast"
    /\ IF ~ret[i].ok
       THEN /\ result' = [result EXCEPT ![i] = Raised(ret[i].exc)]
            /\ UNCHANGED forecast_data
       ELSE /\ forecast_data' = [forecast_data EXCEPT ![i] = ret[i].v]
            /\ result' = [result EXCEPT ![i] = ForecastDecision(ret[i].v)]
    /\ pc' = [pc EXCEPT ![i] = "done"]
    /\ UNCHANGED <<tool, stage, gwvars, data, points_data, forecast_url, requested>>

\* the serving loop hands the outcome to the caller; the invocation's
\* frame is gone and the loop takes the next call
Deliver(i) ==
    /\ pc[i] = "done"
    /\ pc' = [pc EXCEPT ![i] = "idle"]
    /\ tool' = [tool EXCEPT ![i] = "none"]
    /\ stage' = [stage EXCEPT ![i] = "none"]
    /\ url' = [url EXCEPT ![i] = ""]
    /\ ret' = [ret EXCEPT ![i] = Ok(None)]
    /\ printed' = [printed EXCEPT ![i] = ""]
    /\ data' = [data EXCEPT ![i] = None]
    /\ points_data' = [points_data EXCEPT ![i] = None]
    /\ forecast_url' = [forecast_url EXCEPT ![i] = ""]
    /\ forecast_data' = [forecast_data EXCEPT ![i] = None]
    /\ result' = [result EXCEPT ![i] = NoResult]
    /\ requested' = [requested EXCEPT ![i] = <<>>]
    /\ UNCHANGED <<client, response, conns, opened_by>>

(* --------------------------- specifications --------------------------- *)
\* one invocation at a time, every Gateway result
Init == InitOver({1})

Next ==
    \E i \in {1} :
        \/ get_alerts(i, States)
        \/ get_forecast(i, Coords)
        \/ GwEnter(i)
        \/ GwGet(i, AllResponses)
        \/ GwExit(i)
        \/ get_alerts_resume(i)
        \/ get_forecast_points(i)
        \/ get_forecast_format(i)
        \/ Deliver(i)

Spec == Init /\ [][Next]_vars

\* NumInv invocations interleaved at their awaits, a few Gateway results
InitConc == InitOver(1..NumInv)

NextConc ==
    \E i \in 1..NumInv :
        \/ get_alerts(i, {"CA"})
        \/ get_forecast(i, Coords)
        \/ GwEnter(i)
        \/ GwGet(i, FewResponses)
        \/ GwExit(i)
        \/ get_alerts_resume(i)
        \/ get_forecast_points(i)
        \/ get_forecast_format(i)
        \/ Deliver(i)

SpecConc == InitConc /\ [][NextConc]_vars

(* ------------------------------ properties ---------------------------- *)
Invs == DOMAIN pc
Done(i, t) == pc[i] = "done" /\ tool[i] = t
UnableAlerts == Returned(<<"Unable to fetch alerts or no alerts found.">>)
NoAlerts == Returned(<<"No weather alerts for this state.">>)
UnablePoints == Returned(<<"Unable to fetch forecast data for this location.">>)
UnableForecast == Returned(<<"Unable to fetch detailed forecast.">>)

\* the GET of a response r failed: client.get raised, the status is not a
\* success, or the body does not decode
Failed(r) == r.get_exc # "" \/ r.status < 200 \/ r.status > 299 \/ ~r.decodable

\* the features of a Gateway result, when it is a non-empty list of
\* records that each hold a properties map
HasAlertRecords(d) ==
    /\ d.t = "dict" /\ "features" \in DOMAIN d.m
    /\ d.m["features"].t = "list" /\ d.m["features"].items # <<>>
    /\ \A k \in 1..Len(d.m["features"].items) :
         LET f == d.m["features"].items[k] IN
         /\ f.t = "dict" /\ "properties" \in DOMAIN f.m
         /\ f.m["properties"].t = "dict"
PropsOf(d, k) == d.m["features"].items[k].m["properties"].m

\* the periods of a Gateway result, when it is a non-empty list of
\* records that hold every key the template reads
HasPeriodRecords(d) ==
    /\ d.t = "dict" /\ "properties" \in DOMAIN d.m
    /\ d.m["properties"].t = "dict" /\ "periods" \in DOMAIN d.m["properties"].m
    /\ d.m["properties"].m["periods"].t = "list"
    /\ d.m["properties"].m["periods"].items # <<>>
    /\ \A k \in 1..Len(d.m["properties"].m["periods"].items) :
         LET q == d.m["properties"].m["periods"].items[k] IN
         q.t = "dict" /\ PeriodKeys \subseteq DOMAIN q.m
PeriodsOf(d) == d.m["properties"].m["periods"].items

\* the labels of a block and the key shown after each, in order
AlertLabels == << "\n        Event: ", "\n        Area: ", "\n        Serverity: ",
                  "\n        Description: ", "\n        Instruction: " >>
AlertFields == << "event", "areaDesc", "severity", "description", "instruction" >>
\* a block is 11 pieces: five labels, five values and the closing line
Piece(text, k, j) == text[12 * (k - 1) + j]

\* C1: every invocation of get_alerts and of get_forecast ends by returning
\* a text, whatever the Gateway handed back; it never ends by a fault.
C1_HandlersNeverRaise ==
    \A i \in Invs : pc[i] = "done" => result[i].kind = "return"

\* C2: make_nws_request never faults; it returns None for every failed
\* GET, whichever the failure, and the decoded body only for a successful
\* status with a body that decodes.
C2_GatewayAbsentOnFailure ==
    \A i \in Invs :
        /\ pc[i] \in {"leave", "resume"} => ret[i].ok
        /\ pc[i] = "leave" =>
             /\ Failed(response[i]) => ret[i].v = None
             /\ ~Failed(response[i]) => ret[i].v = response[i].body

C2_Witness ==
    \E i \in Invs :
        /\ pc[i] = "leave" /\ response[i].get_exc = ""
        /\ response[i].status = 200 /\ ~response[i].decodable
        /\ ret[i] = Ok(None)

\* C3: when the Gateway returned None or an object without a features
\* key, get_alerts returns the "Unable to fetch alerts" sentence, after
\* exactly one Gateway call.
C3_AlertsUnable ==
    \A i \in Invs :
        Done(i, "get_alerts") /\ (data[i] = None \/ ~Contains(data[i], "features"))
            => result[i] = UnableAlerts /\ Len(requested[i]) = 1

C3_Witness ==
    \E i \in Invs :
        /\ Done(i, "get_alerts") /\ data[i].t = "dict" /\ DOMAIN data[i].m # {}
        /\ "features" \notin DOMAIN data[i].m
        /\ result[i] = UnableAlerts

\* C4: when features is an empty sequence get_alerts returns the "No
\* weather alerts" sentence, and it never returns that sentence for a
\* non-empty features sequence.
C4_NoAlerts ==
    \A i \in Invs :
        Done(i, "get_alerts") /\ Contains(data[i], "features") =>
            LET f == data[i].m["features"] IN
            /\ f = JList(<<>>) => result[i] = NoAlerts
            /\ f.t = "list" /\ f.items # <<>> => result[i] # NoAlerts

C4_Witness ==
    \E i \in Invs :
        /\ Done(i, "get_alerts") /\ data[i] = JDict([features |-> JList(<<>>)])
        /\ result[i] = NoAlerts

\* C5: for a non-empty features sequence of n alert records get_alerts
\* returns n blocks, the k-th made from the k-th feature, joined by
\* "\n---\n"; each block holds the five labels in order, each followed by
\* the value of its key where the record has the key.
C5_AlertBlocks ==
    \A i \in Invs :
        Done(i, "get_alerts") /\ HasAlertRecords(data[i]) =>
            LET n == Len(data[i].m["features"].items)
                text == result[i].text
            IN  /\ result[i].kind = "return"
                /\ Len(text) = 12 * n - 1
                /\ \A k \in 1..n :
                     /\ \A j \in 1..5 :
                          /\ Piece(text, k, 2 * j - 1) = AlertLabels[j]
                          /\ AlertFields[j] \in DOMAIN PropsOf(data[i], k) =>
                               Piece(text, k, 2 * j) = PropsOf(data[i], k)[AlertFields[j]].s
                     /\ Piece(text, k, 11) = "\n    "
                     /\ k < n => Piece(text, k, 12) = "\n---\n"

C5_Witness ==
    \E i \in Invs :
        /\ Done(i, "get_alerts") /\ HasAlertRecords(data[i])
        /\ Len(data[i].m["features"].items) = 2
        /\ data[i].m["features"].items[1] = data[i].m["features"].items[2]
        /\ DOMAIN PropsOf(data[i], 1) = AlertKeys
        /\ result[i].kind = "return" /\ Len(result[i].text) = 23

\* C6: in a block, a field whose key is absent from the properties map
\* shows a placeholder text, not the rendering of a missing value.
Placeholders == {"Unknown", "No description available", "No instruction available"}
C6_PlaceholderWhenAbsent ==
    \A i \in Invs :
        Done(i, "get_alerts") /\ HasAlertRecords(data[i]) /\ result[i].kind = "return" =>
            \A k \in 1..Len(data[i].m["features"].items) : \A j \in 1..5 :
                AlertFields[j] \notin DOMAIN PropsOf(data[i], k) =>
                    Piece(result[i].text, k, 2 * j) \in Placeholders

\* C7: with both Gateway calls successful and n >= 1 periods, get_forecast
\* returns the formatted text of the period at index min(n,5)-1 alone.
C7_LastOfFirstFive ==
    \A i \in Invs :
        Done(i, "get_forecast") /\ Len(requested[i]) = 2 /\ HasPeriodRecords(forecast_data[i]) =>
            LET ps == PeriodsOf(forecast_data[i])
                last == IF Len(ps) < 5 THEN Len(ps) ELSE 5
            IN  result[i] = Returned(FormatPeriod(ps[last]).v.text)

\* C8: when the points call yields None, get_forecast returns the "Unable
\* to fetch forecast data" sentence without a second Gateway call; the
\* forecast call is made only after the points call returned data, and an
\* invocation makes at most two Gateway calls.
C8_PointsAbsent ==
    \A i \in Invs :
        /\ Done(i, "get_forecast") /\ points_data[i] = None
             => result[i] = UnablePoints /\ Len(requested[i]) = 1
        /\ Len(requested[i]) <= 2
        /\ stage[i] = "forecast" =>
             /\ points_data[i] # None /\ Len(requested[i]) = 2
             /\ requested[i][2] = forecast_url[i]
        /\ tool[i] = "get_forecast" /\ stage[i] = "points" => Len(requested[i]) = 1

C8_Witness ==
    \E i \in Invs :
        /\ Done(i, "get_forecast") /\ points_data[i] = None
        /\ result[i] = UnablePoints /\ Len(requested[i]) = 1

\* C9: when the points call returned a forecast URL and the call on that
\* URL yields None, get_forecast returns "Unable to fetch detailed forecast."
C9_ForecastAbsent ==
    \A i \in Invs :
        Done(i, "get_forecast") /\ Len(requested[i]) = 2 /\ forecast_data[i] = None
            => result[i] = UnableForecast

C9_Witness ==
    \E i \in Invs :
        /\ Done(i, "get_forecast") /\ Len(requested[i]) = 2 /\ forecast_data[i] = None
        /\ requested[i][2] = points_data[i].m["properties"].m["forecast"].s
        /\ result[i] = UnableForecast

\* C10: a client is open exactly while the Gateway call that opened it is
\* inside its async with block, whatever the GET came to; no two calls
\* share a client, and none is open once the invocations have completed.
C10_ConnectionsReleased ==
    /\ \A i \in Invs :
         IF pc[i] \in {"get", "leave"}
         THEN client[i] \in conns /\ opened_by[client[i]] = i
         ELSE \A c \in conns : opened_by[c] # i
    /\ \A i, j \in Invs : i # j /\ pc[i] \in {"get", "leave"} /\ pc[j] \in {"get", "leave"}
                            => client[i] # client[j]
    /\ (\A i \in Invs : pc[i] \in {"idle", "done"}) => conns = {}

C10_Witness ==
    /\ conns = {}
    /\ \A i \in Invs : pc[i] = "done"
    /\ \E i \in Invs : printed[i] # ""
    /\ \E i \in Invs : Len(requested[i]) = 2 /\ printed[i] = ""

====
